---- MODULE Spec2Model ----
(***************************************************************************)
(* A model of the two page scripts of the site:                            *)
(*   js/auto-index.js  buildAutoIndex / buildPostMap / buildCategoryList   *)
(*   js/auto-toc.js    generateTOC / generateUniqueId / generateSlug       *)
(*                                                                         *)
(* JavaScript strings are sequences of one-character strings, so that      *)
(* trim(), replace(), toLowerCase() and the default sort order are         *)
(* computed on the characters, as the code computes them.                  *)
(***************************************************************************)
EXTENDS Integers, Sequences, FiniteSets, TLC

VARIABLES
    \* ---- js/auto-index.js ----
    mainPresent,   \* document.querySelector('main') finds an element
    postFiles,     \* SITE_CONFIG.postFiles
    fault,         \* the rendering call that throws ("none": no call throws)
    pc,            \* position of buildAutoIndex
    region,        \* children of <main>
    task,          \* one async callback of htmlFiles.map per file
    all,           \* the promise of Promise.all
    requests,      \* the fetch() calls issued so far, in order
    settleOrder,   \* indices of the callbacks, in the order they settled
    outcome,       \* what `await buildPostMap()` gave buildAutoIndex
    log,           \* console output
    \* ---- buildCategoryList alone ----
    listIn,        \* the postMap handed to buildCategoryList
    listOut,       \* the <dl> it returned
    \* ---- js/auto-toc.js ----
    readyState,    \* document.readyState
    els,           \* the elements of the document, in document order
    tocPc,         \* position of the script
    tocItems       \* the <li><a> entries of the generated list

indexVars == <<mainPresent, postFiles, fault, pc, region, task, all, requests,
               settleOrder, outcome, log>>
listVars == <<listIn, listOut>>
tocVars == <<readyState, els, tocPc, tocItems>>
vars == <<indexVars, listVars, tocVars>>

(***************************************************************************)
(* Bounds of the model.                                                    *)
(***************************************************************************)
MaxFiles == 2      \* length of SITE_CONFIG.postFiles
MaxKeys == 3       \* categories of a postMap handed to buildCategoryList
MaxBucket == 3     \* articles of one category
MaxEls == 3        \* elements of a document scanned by generateTOC

(***************************************************************************)
(* Strings.                                                                *)
(***************************************************************************)
\* The characters the model uses, with their UTF-16 code units.
Digits == <<"0", "1", "2", "3", "4", "5", "6", "7", "8", "9">>
Upper ==
    <<"A", "B", "C", "D", "E", "F", "G", "H", "I", "J", "K", "L", "M", "N",
      "O", "P", "Q", "R", "S", "T", "U", "V", "W", "X", "Y", "Z">>
Lower ==
    <<"a", "b", "c", "d", "e", "f", "g", "h", "i", "j", "k", "l", "m", "n",
      "o", "p", "q", "r", "s", "t", "u", "v", "w", "x", "y", "z">>

IndexOf(c, s) == CHOOSE i \in 1..Len(s) : s[i] = c
IsIn(c, s) == \E i \in 1..Len(s) : s[i] = c

CodeUnit(c) ==
    IF IsIn(c, Digits) THEN 47 + IndexOf(c, Digits)
    ELSE IF IsIn(c, Upper) THEN 64 + IndexOf(c, Upper)
    ELSE IF IsIn(c, Lower) THEN 96 + IndexOf(c, Lower)
    ELSE CASE c = " " -> 32
           [] c = "!" -> 33
           [] c = "-" -> 45
           [] c = "." -> 46
           [] c = ";" -> 59
           [] c = "_" -> 95

IsSpace(c) == c = " "

RECURSIVE TrimStart(_)
TrimStart(s) ==
    IF s # <<>> /\ IsSpace(Head(s)) THEN TrimStart(Tail(s)) ELSE s

RECURSIVE TrimEnd(_)
TrimEnd(s) ==
    IF s # <<>> /\ IsSpace(s[Len(s)]) THEN TrimEnd(SubSeq(s, 1, Len(s) - 1))
    ELSE s

\* String.prototype.trim
Trim(s) == TrimEnd(TrimStart(s))

\* a < b in the order of Array.prototype.sort without a comparator:
\* code unit by code unit, a proper prefix first.
RECURSIVE StrLess(_, _)
StrLess(a, b) ==
    IF b = <<>> THEN FALSE
    ELSE IF a = <<>> THEN TRUE
    ELSE IF CodeUnit(Head(a)) # CodeUnit(Head(b))
         THEN CodeUnit(Head(a)) < CodeUnit(Head(b))
    ELSE StrLess(Tail(a), Tail(b))

DotHtml == <<".", "h", "t", "m", "l">>

\* filename.replace(/[.]html$/, empty string)
StripHtml(f) ==
    IF Len(f) >= 5 /\ SubSeq(f, Len(f) - 4, Len(f)) = DotHtml
    THEN SubSeq(f, 1, Len(f) - 5)
    ELSE f

\* The element of a one-element set. { e : x \in {v} } evaluates v once,
\* where an operator argument is evaluated at every use.
Only(S) == CHOOSE x \in S : TRUE

(***************************************************************************)
(* js/auto-index.js: the data.                                             *)
(***************************************************************************)
\* a.html, b.html, c.html, ...
FileName(i) == <<Lower[i]>> \o DotHtml
FileNames == {FileName(1), FileName(2), FileName(3)}

PostsDir == <<"p", "o", "s", "t", "s", "/">>

StrOthers == <<"o", "t", "h", "e", "r", "s">>
StrConstructor == <<"c", "o", "n", "s", "t", "r", "u", "c", "t", "o", "r">>
StrToString == <<"t", "o", "S", "t", "r", "i", "n", "g">>
StrValueOf == <<"v", "a", "l", "u", "e", "O", "f">>

\* Names every object literal {} answers through Object.prototype.
ObjectPrototypeProps == {StrConstructor, StrToString, StrValueOf}

\* The article files a server can answer with: the content of
\* <meta name="category"> (when there is one) and the text of each <p>.
Docs ==
    { [hasMeta |-> TRUE, meta |-> <<"x">>, paras |-> << <<"H", "i">> >>],
      [hasMeta |-> FALSE, meta |-> <<>>, paras |-> <<>>],
      [hasMeta |-> TRUE, meta |-> <<" ">>,
       paras |-> << <<" ">>, <<"H", "i", " ">> >>],
      [hasMeta |-> TRUE, meta |-> <<" ", "X", " ">>, paras |-> <<>>],
      [hasMeta |-> TRUE, meta |-> StrConstructor, paras |-> <<>>] }

\* The category of a retrieved document (lines 140-147).
ExtractCategory(doc) ==
    IF doc.hasMeta /\ Len(Trim(doc.meta)) > 0 THEN Trim(doc.meta)
    ELSE StrOthers

\* The first paragraph whose trimmed text is not empty (lines 150-158).
RECURSIVE FirstParagraph(_)
FirstParagraph(paras) ==
    IF paras = <<>> THEN <<>>
    ELSE IF Len(Trim(Head(paras))) > 0 THEN Trim(Head(paras))
    ELSE FirstParagraph(Tail(paras))

ExtractContent(filename, doc) ==
    IF FirstParagraph(doc.paras) = <<>> THEN StripHtml(filename)
    ELSE FirstParagraph(doc.paras)

\* The record the callback returns for a retrieved file (line 167).
ArticleRecord(filename, doc) ==
    [filename |-> filename,
     category |-> ExtractCategory(doc),
     slug |-> StripHtml(filename),
     content |-> ExtractContent(filename, doc)]

(***************************************************************************)
(* A JavaScript object used as a map: its own properties in insertion      *)
(* order, each <<key, value>>, over Object.prototype.                      *)
(***************************************************************************)
EmptyObject == <<>>

OwnKeys(obj) == [i \in 1..Len(obj) |-> obj[i][1]]
HasOwn(obj, k) == \E i \in 1..Len(obj) : obj[i][1] = k
OwnValue(obj, k) == obj[CHOOSE i \in 1..Len(obj) : obj[i][1] = k][2]

\* obj[k]: an own property, else what Object.prototype answers, else
\* undefined.
GetProp(obj, k) ==
    IF HasOwn(obj, k) THEN [kind |-> "array", items |-> OwnValue(obj, k)]
    ELSE IF k \in ObjectPrototypeProps THEN [kind |-> "inherited", items |-> <<>>]
    ELSE [kind |-> "undefined", items |-> <<>>]

\* obj[k] = v
SetProp(obj, k, v) ==
    IF HasOwn(obj, k)
    THEN [i \in 1..Len(obj) |-> IF obj[i][1] = k THEN <<k, v>> ELSE obj[i]]
    ELSE Append(obj, <<k, v>>)

PushError == "categories[article.category].push is not a function"

\* One step of validArticles.forEach (lines 175-180): state is
\* [ok, map, err]; a value that is no array has no push, and the call
\* throws a TypeError.
GroupStep(acc0, article0) ==
    Only({
        IF ~acc.ok THEN acc
        ELSE LET cur == GetProp(acc.map, article.category)
                 made == IF cur.kind = "undefined"
                         THEN SetProp(acc.map, article.category, <<>>)
                         ELSE acc.map
                 now == GetProp(made, article.category)
             IN  IF now.kind = "array"
                 THEN [ok |-> TRUE,
                       map |-> SetProp(made, article.category,
                                       Append(now.items, article)),
                       err |-> ""]
                 ELSE [ok |-> FALSE, map |-> made, err |-> PushError]
        : acc \in {acc0}, article \in {article0} })

RECURSIVE GroupFrom(_, _)
GroupFrom(acc, articles) ==
    IF articles = <<>> THEN acc
    ELSE GroupFrom(GroupStep(acc, Head(articles)), Tail(articles))

\* Lines 174-182.
GroupByCategory(validArticles) ==
    GroupFrom([ok |-> TRUE, map |-> EmptyObject, err |-> ""], validArticles)

(***************************************************************************)
(* buildCategoryList, createKnowledgeTable, buildHeader, buildFooter.      *)
(***************************************************************************)
\* Array.prototype.sort() on distinct strings: each string goes to the
\* place given by the number of strings below it.
SortStrings(s0) ==
    Only({ [i \in 1..Len(s) |->
              s[CHOOSE j \in 1..Len(s) :
                  Cardinality({ h \in 1..Len(s) : StrLess(s[h], s[j]) }) = i - 1]]
           : s \in {s0} })

\* Object.keys(postMap) left as it is.
UnsortedCategories(postMap) == OwnKeys(postMap)

\* Object.keys(postMap).sort() (line 14)
SortedCategories(postMap) == SortStrings(OwnKeys(postMap))

Separator == [tag |-> "#text", text |-> <<";", " ">>]

LinkTo(article) ==
    [tag |-> "a", href |-> PostsDir \o article.filename, text |-> article.slug]

\* The children of one <dd> (lines 32-45): link index is followed by a
\* separator when index < articles.length - 1.
LinkList(articles) ==
    [j \in 1..(IF Len(articles) = 0 THEN 0 ELSE 2 * Len(articles) - 1) |->
        IF j % 2 = 1 THEN LinkTo(articles[(j + 1) \div 2]) ELSE Separator]

\* The children of the <dl>: a <dt> and a <dd> per category (lines 17-50).
TermsAndDescriptions(postMap, cats) ==
    [j \in 1..(2 * Len(cats)) |->
        IF j % 2 = 1
        THEN [tag |-> "dt", text |-> cats[(j + 1) \div 2]]
        ELSE [tag |-> "dd", children |-> LinkList(OwnValue(postMap, cats[j \div 2]))]]

buildCategoryList(postMap) ==
    Only({ [tag |-> "dl", children |-> TermsAndDescriptions(postMap, sortedCategories)]
           : sortedCategories \in {SortedCategories(postMap)} })

createKnowledgeTable(postMap) ==
    [tag |-> "table",
     cells |-> << [tag |-> "td", class |-> "shortcuts"],
                  [tag |-> "td", class |-> "posts",
                   list |-> buildCategoryList(postMap)],
                  [tag |-> "td", class |-> "language"] >>]

buildHeader == [tag |-> "header", children |-> <<"title", "subtitle", "description">>]
buildFooter == [tag |-> "footer", children |-> <<"copyright", "license", "source">>]

(***************************************************************************)
(* buildPostMap and buildAutoIndex: the promises.                          *)
(***************************************************************************)
Files == 1..Len(postFiles)

Null == <<>>

Fetching == [st |-> "fetching", val |-> Null, err |-> ""]
Reading == [st |-> "reading", val |-> Null, err |-> ""]
Fulfilled(v) == [st |-> "fulfilled", val |-> v, err |-> ""]
Rejected(e) == [st |-> "rejected", val |-> Null, err |-> e]

Settled(t) == t.st \in {"fulfilled", "rejected"}

NetworkError == "Failed to fetch"
BodyError == "body stream error"

\* Promise.all after callback i settled: it rejects with the first
\* rejection, and is fulfilled once every callback is fulfilled.
PromiseAllRace(a, t, i) ==
    IF a.st # "pending" THEN a
    ELSE IF t[i].st = "rejected" THEN [st |-> "rejected", err |-> t[i].err]
    ELSE [st |-> "fulfilled", err |-> ""]

PromiseAll(a, t, i) ==
    IF a.st # "pending" THEN a
    ELSE IF t[i].st = "rejected" THEN [st |-> "rejected", err |-> t[i].err]
    ELSE IF \A j \in DOMAIN t : t[j].st = "fulfilled"
         THEN [st |-> "fulfilled", err |-> ""]
    ELSE a

\* The array Promise.all is fulfilled with: one value per callback, in the
\* order of htmlFiles.
PromiseAllValues(t) == [i \in DOMAIN t |-> t[i].val]

\* articles.filter(article => article !== null), unshifting instead.
RECURSIVE ValidArticlesReversed(_)
ValidArticlesReversed(articles) ==
    IF articles = <<>> THEN <<>>
    ELSE ValidArticlesReversed(Tail(articles)) \o Head(articles)

\* articles.filter(article => article !== null) (line 171)
RECURSIVE ValidArticles(_)
ValidArticles(articles) ==
    IF articles = <<>> THEN <<>>
    ELSE Head(articles) \o ValidArticles(Tail(articles))

EmptyResultUndefined(files) == [ok |-> FALSE, map |-> EmptyObject,
                                err |-> "Cannot convert undefined or null to object"]

\* `return {}` of the empty list (lines 122-125).
EmptyResult(files) == [ok |-> TRUE, map |-> EmptyObject, err |-> ""]

\* What buildPostMap settles with: [ok, map, err].
BuildPostMapResult(files, t, a) ==
    IF Len(files) = 0 THEN EmptyResult(files)
    ELSE IF a.st = "rejected" THEN [ok |-> FALSE, map |-> EmptyObject, err |-> a.err]
    ELSE Only({ GroupByCategory(validArticles)
                : validArticles \in {ValidArticles(PromiseAllValues(t))} })

\* The microtask that resumes buildAutoIndex is queued.
ResumeReady ==
    /\ pc = "awaiting"
    /\ \/ Len(postFiles) = 0
       \/ all.st \in {"fulfilled", "rejected"}

(***************************************************************************)
(* The main region.                                                        *)
(***************************************************************************)
OriginalContent == <<[tag |-> "original"]>>
LoadingP == [tag |-> "p", style |-> "", text |-> "Loading knowledge base..."]
ErrorP(msg) ==
    [tag |-> "p", style |-> "color: red;",
     text |-> "Error loading knowledge base: ", message |-> msg]

FaultPoints == {"createKnowledgeTable", "buildHeader", "appendTable", "buildFooter"}

RenderError == "render failed"

\* Lines 235-245 with the call named by flt throwing: the region as the
\* try block left it, and whether it threw.
TryRender(before, postMap, flt) ==
    LET header == buildHeader
        table == createKnowledgeTable(postMap)
        footer == buildFooter
    IN  CASE flt = "createKnowledgeTable" ->
                [threw |-> TRUE, region |-> before, err |-> RenderError]
          [] flt = "buildHeader" ->
                [threw |-> TRUE, region |-> <<>>, err |-> RenderError]
          [] flt = "appendTable" ->
                [threw |-> TRUE, region |-> <<header>>, err |-> RenderError]
          [] flt = "buildFooter" ->
                [threw |-> TRUE, region |-> <<header, table>>, err |-> RenderError]
          [] OTHER ->
                [threw |-> FALSE, region |-> <<header, table, footer>>, err |-> ""]

\* The catch block appending the message to what is there.
CatchAppend(before, msg) == Append(before, ErrorP(msg))

\* mainContainer.innerHTML = `<p style="color: red;">...` (line 248)
CatchBlock(before, msg) == <<ErrorP(msg)>>

\* The region after lines 233-249, given what buildPostMap settled with.
RegionAfter(before, result, flt) ==
    IF ~result.ok THEN CatchBlock(before, result.err)
    ELSE LET r == TryRender(before, result.map, flt)
         IN  IF r.threw THEN CatchBlock(r.region, r.err) ELSE r.region

ThrewIn(result, flt) == ~result.ok \/ flt \in FaultPoints

Entry(level, msg, file) == [level |-> level, msg |-> msg, file |-> file]

(***************************************************************************)
(* Initial states.                                                         *)
(***************************************************************************)
\* Lists of distinct file names, up to MaxFiles long.
FileLists ==
    UNION { { f \in [1..n -> FileNames] : \A i, j \in 1..n : i # j => f[i] # f[j] }
            : n \in 0..MaxFiles }

IndexIdle ==
    /\ mainPresent = FALSE
    /\ postFiles = <<>>
    /\ fault = "none"
    /\ pc = "off"
    /\ region = OriginalContent
    /\ task = <<>>
    /\ all = [st |-> "none", err |-> ""]
    /\ requests = <<>>
    /\ settleOrder = <<>>
    /\ outcome = [st |-> "none", map |-> EmptyObject, err |-> ""]
    /\ log = <<>>

ListIdle ==
    /\ listIn = EmptyObject
    /\ listOut = <<>>

TocIdle ==
    /\ readyState = "complete"
    /\ els = <<>>
    /\ tocPc = "off"
    /\ tocItems = <<>>

IndexInit(faults) ==
    /\ mainPresent \in BOOLEAN
    /\ postFiles \in FileLists
    /\ fault \in faults
    /\ pc = "ready"
    /\ region = OriginalContent
    /\ task = <<>>
    /\ all = [st |-> "none", err |-> ""]
    /\ requests = <<>>
    /\ settleOrder = <<>>
    /\ outcome = [st |-> "none", map |-> EmptyObject, err |-> ""]
    /\ log = <<>>

(***************************************************************************)
(* Actions of js/auto-index.js.                                            *)
(***************************************************************************)
\* Lines 226-229 taken without the return: the pipeline runs on.
MissingMainNoReturn ==
    /\ log' = Append(log, Entry("error", "Main container not found", <<>>))
    /\ pc' = "awaiting"
    /\ requests' = [i \in Files |-> PostsDir \o postFiles[i]]
    /\ task' = [i \in Files |-> Fetching]
    /\ all' = [st |-> "pending", err |-> ""]
    /\ UNCHANGED region

\* Lines 226-229: no main region.
MissingMain ==
    /\ log' = Append(log, Entry("error", "Main container not found", <<>>))
    /\ pc' = "halted"
    /\ UNCHANGED <<region, task, all, requests>>

\* Lines 231-234 and buildPostMap up to its await (lines 119-132).
ShowLoadingAndFetch ==
    /\ region' = <<LoadingP>>
    /\ pc' = "awaiting"
    /\ IF Len(postFiles) = 0
       THEN /\ log' = Append(log, Entry("warn", "No articles found", <<>>))
            /\ UNCHANGED <<task, all, requests>>
       ELSE /\ log' = Append(log, Entry("log", "Found article(s)", <<>>))
            /\ requests' = [i \in Files |-> PostsDir \o postFiles[i]]
            /\ task' = [i \in Files |-> Fetching]
            /\ all' = [st |-> "pending", err |-> ""]

\* DOMContentLoaded: buildAutoIndex up to `await buildPostMap()`.
Start ==
    /\ pc = "ready"
    /\ IF ~mainPresent THEN MissingMain ELSE ShowLoadingAndFetch
    /\ UNCHANGED <<mainPresent, postFiles, fault, settleOrder, outcome>>
    /\ UNCHANGED <<listVars, tocVars>>

\* A network event is handled only when no microtask is queued.
EventTurn == pc \in {"awaiting", "done"} /\ ~ResumeReady

Settle(i, t) ==
    /\ task' = [task EXCEPT ![i] = t]
    /\ settleOrder' = Append(settleOrder, i)
    /\ all' = PromiseAll(all, task', i)

\* fetch() of file i resolves with a response (lines 132-137).
FetchResolve(i, ok) ==
    /\ EventTurn
    /\ task[i].st = "fetching"
    /\ IF ok
       THEN /\ task' = [task EXCEPT ![i] = Reading]
            /\ UNCHANGED <<settleOrder, all, log>>
       ELSE /\ log' = Append(log, Entry("warn", "Failed to fetch", postFiles[i]))
            /\ Settle(i, Fulfilled(Null))
    /\ UNCHANGED <<mainPresent, postFiles, fault, pc, region, requests, outcome>>
    /\ UNCHANGED <<listVars, tocVars>>

\* fetch() of file i rejects: the callback has no handler and rejects.
FetchReject(i) ==
    /\ EventTurn
    /\ task[i].st = "fetching"
    /\ Settle(i, Rejected(NetworkError))
    /\ UNCHANGED <<mainPresent, postFiles, fault, pc, region, requests, outcome, log>>
    /\ UNCHANGED <<listVars, tocVars>>

\* res.text() of file i resolves with the document (lines 137-167).
TextResolve(i, doc) ==
    /\ EventTurn
    /\ task[i].st = "reading"
    /\ Settle(i, Fulfilled(<<ArticleRecord(postFiles[i], doc)>>))
    /\ log' = IF doc.hasMeta /\ Len(Trim(doc.meta)) > 0 THEN log
              ELSE Append(log, Entry("log", "[Auto-inject]", postFiles[i]))
    /\ UNCHANGED <<mainPresent, postFiles, fault, pc, region, requests, outcome>>
    /\ UNCHANGED <<listVars, tocVars>>

\* res.text() of file i rejects.
TextReject(i) ==
    /\ EventTurn
    /\ task[i].st = "reading"
    /\ Settle(i, Rejected(BodyError))
    /\ UNCHANGED <<mainPresent, postFiles, fault, pc, region, requests, outcome, log>>
    /\ UNCHANGED <<listVars, tocVars>>

\* The microtasks after Promise.all settled (or after `return {}`): the
\* rest of buildPostMap (lines 171-182) and of buildAutoIndex (235-249).
Resume ==
    /\ ResumeReady
    /\ \E result \in {BuildPostMapResult(postFiles, task, all)} :
          /\ outcome' = [st |-> IF result.ok THEN "map" ELSE "error",
                         map |-> result.map, err |-> result.err]
          /\ region' = RegionAfter(region, result, fault)
          /\ log' = IF ThrewIn(result, fault)
                    THEN Append(log, Entry("error", "Error building auto-index:", <<>>))
                    ELSE Append(log, Entry("log", "Knowledge base index built successfully!", <<>>))
    /\ pc' = "done"
    /\ UNCHANGED <<mainPresent, postFiles, fault, task, all, requests, settleOrder>>
    /\ UNCHANGED <<listVars, tocVars>>

IndexNext ==
    \/ Start
    \/ \E i \in Files, ok \in BOOLEAN : FetchResolve(i, ok)
    \/ \E i \in Files : FetchReject(i)
    \/ \E i \in Files, doc \in Docs : TextResolve(i, doc)
    \/ \E i \in Files : TextReject(i)
    \/ Resume

Init == IndexInit({"none"}) /\ ListIdle /\ TocIdle
Next == IndexNext
Spec == Init /\ [][Next]_vars

\* The same with one rendering call throwing.
FaultInit == IndexInit({"none"} \cup FaultPoints) /\ ListIdle /\ TocIdle
FaultSpec == FaultInit /\ [][Next]_vars

\* The event loop runs a queued microtask.
LiveSpec == Spec /\ WF_vars(Resume)

(***************************************************************************)
(* buildCategoryList on its own: every postMap within the bounds.          *)
(***************************************************************************)
KeyNames ==
    { <<"z", "e", "b", "r", "a">>, <<"A", "l", "p", "h", "a">>,
      <<"b", "e", "t", "a">>, <<"b">> }

KeyLists ==
    UNION { { f \in [1..n -> KeyNames] : \A i, j \in 1..n : i # j => f[i] # f[j] }
            : n \in 0..MaxKeys }

ListArticle(i, cat) ==
    [filename |-> FileName(i), category |-> cat,
     slug |-> StripHtml(FileName(i)), content |-> StripHtml(FileName(i))]

\* Buckets of 1..MaxBucket articles, in the order of the file names and in
\* the reverse order.
Buckets(cat) ==
    UNION { { [i \in 1..n |-> ListArticle(i, cat)],
              [i \in 1..n |-> ListArticle(n + 1 - i, cat)] } : n \in 1..MaxBucket }

PostMaps ==
    UNION { { m \in [1..Len(ks) -> (UNION {{ <<ks[i], b>> : b \in Buckets(ks[i]) }
                                           : i \in 1..Len(ks)})] :
                \A i \in 1..Len(ks) : m[i][1] = ks[i] } : ks \in KeyLists }

ListInit ==
    /\ listIn \in PostMaps
    /\ listOut = <<>>
    /\ IndexIdle
    /\ TocIdle

BuildList ==
    /\ listOut = <<>>
    /\ listOut' = <<buildCategoryList(listIn)>>
    /\ UNCHANGED <<listIn, indexVars, tocVars>>

ListSpec == ListInit /\ [][BuildList]_vars

(***************************************************************************)
(* js/auto-toc.js.                                                         *)
(***************************************************************************)
TocContainerId ==
    <<"t", "o", "c", "-", "c", "o", "n", "t", "a", "i", "n", "e", "r">>
Section == <<"s", "e", "c", "t", "i", "o", "n">>

ToLower(c) == IF IsIn(c, Upper) THEN Lower[IndexOf(c, Upper)] ELSE c

\* \w
IsWord(c) == IsIn(c, Digits) \/ IsIn(c, Upper) \/ IsIn(c, Lower) \/ c = "_"

\* .replace(/[\s_]+/g, '-'): every run of spaces and underscores becomes
\* one hyphen.
RECURSIVE SkipSeparators(_)
SkipSeparators(s) ==
    IF s # <<>> /\ (IsSpace(Head(s)) \/ Head(s) = "_") THEN SkipSeparators(Tail(s))
    ELSE s

RECURSIVE Hyphenate(_)
Hyphenate(s) ==
    IF s = <<>> THEN <<>>
    ELSE IF IsSpace(Head(s)) \/ Head(s) = "_"
         THEN <<"-">> \o Hyphenate(SkipSeparators(s))
    ELSE <<Head(s)>> \o Hyphenate(Tail(s))

\* .replace(/^-+|-+$/g, '')
RECURSIVE StripHyphens(_)
StripHyphens(s) ==
    IF s # <<>> /\ Head(s) = "-" THEN StripHyphens(Tail(s))
    ELSE IF s # <<>> /\ s[Len(s)] = "-" THEN StripHyphens(SubSeq(s, 1, Len(s) - 1))
    ELSE s

\* Lines 26-34.
generateSlug(text) ==
    StripHyphens(
        Hyphenate(
            SelectSeq([i \in 1..Len(Trim(text)) |-> ToLower(Trim(text)[i])],
                      LAMBDA c : IsWord(c) \/ IsSpace(c) \/ c = "-")))

\* The decimal digits of a positive number.
RECURSIVE Decimal(_)
Decimal(n) ==
    IF n < 10 THEN <<Digits[n + 1]>>
    ELSE Decimal(n \div 10) \o <<Digits[(n % 10) + 1]>>

\* An element: its tag, its id attribute (empty: none), the id it had in
\* the page source, its text, whether it is a child of the container the
\* page came with, and whether it is in the document.
Element(tag, id, text, inToc) ==
    [tag |-> tag, id |-> id, id0 |-> id, text |-> text, inToc |-> inToc,
     attached |-> TRUE]

\* document.getElementById: the index of the first element of the
\* document with this id, 0 when there is none.
getElementById(doc, id) ==
    IF \E i \in 1..Len(doc) : doc[i].attached /\ doc[i].id = id
    THEN CHOOSE i \in 1..Len(doc) :
            /\ doc[i].attached /\ doc[i].id = id
            /\ \A j \in 1..(i - 1) : ~(doc[j].attached /\ doc[j].id = id)
    ELSE 0

\* The loop of generateUniqueId (lines 46-49).
RECURSIVE UniqueIdLoop(_, _, _, _, _)
UniqueIdLoop(doc, heading, baseSlug, id, counter) ==
    IF getElementById(doc, id) # 0 /\ getElementById(doc, id) # heading
    THEN UniqueIdLoop(doc, heading, baseSlug,
                      baseSlug \o <<"-">> \o Decimal(counter), counter + 1)
    ELSE id

\* Lines 42-51.
generateUniqueId(doc, heading, baseSlug) ==
    UniqueIdLoop(doc, heading, baseSlug, baseSlug, 1)

\* getOrCreateContainer (lines 56-73): a container that is missing is put
\* first in the body; the children of the container are removed.
getOrCreateContainer(doc) ==
    LET with == IF getElementById(doc, TocContainerId) = 0
                THEN <<Element("div", TocContainerId, <<>>, FALSE)>> \o doc
                ELSE doc
    IN  [i \in 1..Len(with) |->
            IF with[i].inToc THEN [with[i] EXCEPT !.attached = FALSE] ELSE with[i]]

\* Step 1 of the forEach (lines 162-170) for the heading at index h.
AssignId(doc, h) ==
    IF doc[h].id # <<>> THEN doc
    ELSE IF generateSlug(doc[h].text) # <<>>
         THEN [doc EXCEPT ![h].id = generateUniqueId(doc, h, generateSlug(doc[h].text))]
    ELSE [doc EXCEPT ![h].id = generateUniqueId(doc, h, Section)]

\* Step 3 of the forEach (lines 176-184).
TocItem(el) == [href |-> <<"#">> \o el.id, text |-> Trim(el.text)]

\* headings.forEach (lines 160-185): state is [doc, items].
RECURSIVE ForEachHeading(_, _)
ForEachHeading(st, headings) ==
    IF headings = <<>> THEN st
    ELSE LET doc == AssignId(st.doc, Head(headings))
         IN  ForEachHeading([doc |-> doc,
                             items |-> Append(st.items, TocItem(doc[Head(headings)]))],
                            Tail(headings))

\* The indices of the elements a selector 'h1' finds, in document order.
RECURSIVE HeadingsFrom(_, _)
HeadingsFrom(doc, i) ==
    IF i > Len(doc) THEN <<>>
    ELSE IF doc[i].tag = "h1" /\ doc[i].attached THEN <<i>> \o HeadingsFrom(doc, i + 1)
    ELSE HeadingsFrom(doc, i + 1)

querySelectorAll(doc) == HeadingsFrom(doc, 1)

\* A container created by getOrCreateContainer moves every element one
\* place down.
Shift(doc, headings) ==
    IF getElementById(doc, TocContainerId) = 0
    THEN [i \in 1..Len(headings) |-> headings[i] + 1]
    ELSE headings

\* generateTOC once the document is loaded (lines 144-185).
generateTOC ==
    LET headings == querySelectorAll(els)
        result == ForEachHeading([doc |-> getOrCreateContainer(els), items |-> <<>>],
                                 Shift(els, headings))
    IN  IF headings = <<>>
        THEN UNCHANGED <<els, tocItems>>
        ELSE /\ els' = result.doc
             /\ tocItems' = result.items

\* Texts of headings.
TextA == <<"A">>
TextA1 == <<" ", "a", "_", " ", "1", "!">>
TextBang == <<"!">>
TextDashes == <<"-", "A", "-">>
TextToc == <<"T", "o", "c", " ", "C", "o", "n", "t", "a", "i", "n", "e", "r">>

\* The elements a page is made of.
BodyElements ==
    { Element("h1", <<>>, TextA, FALSE),
      Element("h1", <<>>, TextA1, FALSE),
      Element("h1", <<>>, TextBang, FALSE),
      Element("h1", <<>>, TextDashes, FALSE),
      Element("h1", <<>>, TextToc, FALSE),
      Element("h1", <<"a">>, TextBang, FALSE),
      Element("p", <<"a", "-", "1">>, <<>>, FALSE),
      Element("p", Section, <<>>, FALSE) }

Bodies == UNION { [1..n -> BodyElements] : n \in 0..MaxEls }

\* What the page has for a container: none, an empty one, one with a
\* paragraph in it, one with a heading in it.
Containers ==
    { <<>>,
      <<Element("div", TocContainerId, <<>>, FALSE)>>,
      <<Element("div", TocContainerId, <<>>, FALSE), Element("p", <<"a">>, <<>>, TRUE)>>,
      <<Element("div", TocContainerId, <<>>, FALSE), Element("h1", <<>>, TextA, TRUE)>> }

TocInit ==
    /\ readyState \in {"loading", "interactive"}
    /\ \E c \in Containers, b \in Bodies : els = c \o b
    /\ tocPc = "start"
    /\ tocItems = <<>>
    /\ IndexIdle
    /\ ListIdle

\* The script is run (lines 139-142, 189).
RunScript ==
    /\ tocPc = "start"
    /\ IF readyState = "loading"
       THEN tocPc' = "waiting" /\ UNCHANGED <<els, tocItems>>
       ELSE tocPc' = "done" /\ generateTOC
    /\ UNCHANGED <<readyState, indexVars, listVars>>

\* The document has been parsed; a listener that was added is called.
DOMContentLoaded ==
    /\ readyState = "loading"
    /\ readyState' = "interactive"
    /\ IF tocPc = "waiting"
       THEN tocPc' = "done" /\ generateTOC
       ELSE UNCHANGED <<tocPc, els, tocItems>>
    /\ UNCHANGED <<indexVars, listVars>>

TocNext == RunScript \/ DOMContentLoaded
TocSpec == TocInit /\ [][TocNext]_vars

(***************************************************************************)
(* Properties of js/auto-toc.js.                                           *)
(***************************************************************************)
ScannedHeadings == { i \in 1..Len(els) : els[i].tag = "h1" }

HeadingSeq == HeadingsFrom([i \in 1..Len(els) |-> [els[i] EXCEPT !.attached = TRUE]], 1)

\* C10: after generateTOC ran on a page with a heading, every scanned
\* heading has an id, the ids the page came with are unchanged, an id
\* generateTOC assigned is the id of no other element of the document, and
\* link i of the list targets '#' + the id of heading i.
C10_HeadingIdsUnique ==
    (tocPc = "done" /\ ScannedHeadings # {}) =>
        /\ \A h \in ScannedHeadings :
              /\ els[h].id # <<>>
              /\ els[h].id0 # <<>> => els[h].id = els[h].id0
              /\ els[h].id0 = <<>> =>
                    \A e \in 1..Len(els) :
                        (e # h /\ els[e].attached) => els[e].id # els[h].id
        /\ Len(tocItems) = Len(HeadingSeq)
        /\ \A i \in 1..Len(HeadingSeq) :
              tocItems[i].href = <<"#">> \o els[HeadingSeq[i]].id

(***************************************************************************)
(* Properties of js/auto-index.js.                                         *)
(***************************************************************************)
\* The page state the main region shows.
Page ==
    IF region = OriginalContent THEN "Initial"
    ELSE IF region = <<LoadingP>> THEN "Loading"
    ELSE IF Len(region) = 1 /\ region[1].tag = "p" /\ region[1].style = "color: red;"
         THEN "Error"
    ELSE IF Len(region) = 3 /\ region[1].tag = "header" /\ region[2].tag = "table"
            /\ region[3].tag = "footer"
         THEN "Rendered"
    ELSE "Partial"

AllSettled == \A i \in Files : Settled(task[i])

\* The retrieval of file i failed: a response that is not ok, or a rejection.
Failed(i) ==
    \/ task[i].st = "rejected"
    \/ task[i].st = "fulfilled" /\ task[i].val = Null

Succeeded(i) == task[i].st = "fulfilled" /\ task[i].val # Null

SuccessfulRecords == { task[i].val[1] : i \in { j \in Files : Succeeded(j) } }

\* Where a record sits in a map: the pairs <<bucket, position>>.
Places(map, r) ==
    { bp \in UNION { { <<b, q>> : q \in 1..Len(map[b][2]) } : b \in 1..Len(map) } :
        map[bp[1]][2][bp[2]] = r }

RecordsOf(map) ==
    UNION { { map[b][2][q] : q \in 1..Len(map[b][2]) } : b \in 1..Len(map) }

FileIndex(r) == CHOOSE i \in Files : postFiles[i] = r.filename
SettlePos(i) == CHOOSE q \in 1..Len(settleOrder) : settleOrder[q] = i

\* C1: a retrieval failure of one file (a status that is not ok, or the
\* fetch rejecting) is not fatal: once everything settled and buildAutoIndex
\* finished, the map holds exactly the files retrieved and the page is not
\* in the error state. (Stated for categories that collide with no
\* inherited property, so that only the retrieval failure is at issue.)
C1_RetrievalFailureNonFatal ==
    ( /\ pc = "done"
      /\ AllSettled
      /\ \E i \in Files : Failed(i)
      /\ \A r \in SuccessfulRecords : r.category \notin ObjectPrototypeProps )
    => ( /\ outcome.st = "map"
         /\ RecordsOf(outcome.map) = SuccessfulRecords
         /\ Page = "Rendered" )

\* C2: buildPostMap's outcome, the grouping and any change of the main
\* region away from the loading placeholder come only after every issued
\* retrieval has settled.
C2_JoinedNotRaced ==
    ( \/ all.st \in {"fulfilled", "rejected"}
      \/ outcome.st # "none"
      \/ Page \notin {"Initial", "Loading"} )
    => AllSettled

\* C3 as stated: within each bucket, records are in the order in which
\* their retrievals settled.
C3_BucketsInSettlementOrder ==
    outcome.st = "map" =>
        \A b \in 1..Len(outcome.map) :
            \A q1, q2 \in 1..Len(outcome.map[b][2]) :
                q1 < q2 =>
                    SettlePos(FileIndex(outcome.map[b][2][q1]))
                        < SettlePos(FileIndex(outcome.map[b][2][q2]))

\* C3 as amended: within each bucket, records are in the order of
\* SITE_CONFIG.postFiles, whatever the order in which retrievals settled.
C3_BucketsInInputOrder ==
    outcome.st = "map" =>
        \A b \in 1..Len(outcome.map) :
            \A q1, q2 \in 1..Len(outcome.map[b][2]) :
                q1 < q2 =>
                    FileIndex(outcome.map[b][2][q1])
                        < FileIndex(outcome.map[b][2][q2])

\* Two files of one category were retrieved, the second settling first.
C3_Witness ==
    /\ outcome.st = "map"
    /\ Len(postFiles) >= 2
    /\ \E b \in 1..Len(outcome.map) : Len(outcome.map[b][2]) >= 2
    /\ Len(settleOrder) >= 2 /\ settleOrder[1] = 2 /\ settleOrder[2] = 1

\* C4: when every retrieval succeeded or was handled, the map holds each
\* retrieved record in exactly one bucket, the bucket keyed by the record's
\* category, and holds nothing else.
C4_EveryRecordInOwnBucket ==
    (pc = "done" /\ all.st = "fulfilled") =>
        /\ outcome.st = "map"
        /\ RecordsOf(outcome.map) = SuccessfulRecords
        /\ \A r \in SuccessfulRecords :
              /\ Cardinality(Places(outcome.map, r)) = 1
              /\ \A bp \in Places(outcome.map, r) : outcome.map[bp[1]][1] = r.category

\* C5: without a main region buildAutoIndex reports an error and halts: no
\* retrieval is issued, nothing of the DOM changes.
C5_MissingMainHalts ==
    ~mainPresent =>
        /\ region = OriginalContent
        /\ requests = <<>>
        /\ task = <<>>
        /\ pc \in {"ready", "halted"}
        /\ pc = "halted" => log = <<Entry("error", "Main container not found", <<>>)>>

C5_Witness == ~mainPresent /\ pc = "halted" /\ Len(postFiles) = MaxFiles

\* C6: after a failure at any step of the pipeline the main region holds
\* the error message and nothing else.
C6_ErrorReplacesRegion ==
    (pc = "done" /\ (outcome.st = "error" \/ fault \in FaultPoints)) =>
        \E msg \in {NetworkError, BodyError, PushError, RenderError} :
            region = <<ErrorP(msg)>>

\* The footer threw after the header and the table were appended.
C6_Witness ==
    /\ pc = "done"
    /\ fault = "buildFooter"
    /\ outcome.st = "map"
    /\ Len(outcome.map) >= 1
    /\ region = <<ErrorP(RenderError)>>

\* C7: with no post files no retrieval is ever issued, buildPostMap gives
\* an empty map, and the page is rendered with an empty category list.
C7_EmptyListRenders ==
    (mainPresent /\ Len(postFiles) = 0) =>
        /\ requests = <<>>
        /\ pc = "done" =>
              /\ outcome = [st |-> "map", map |-> EmptyObject, err |-> ""]
              /\ Page = "Rendered"
              /\ region[2].cells[2].list = [tag |-> "dl", children |-> <<>>]

C7_Witness == mainPresent /\ Len(postFiles) = 0 /\ pc = "done"

\* The steps the page may take.
PageSteps ==
    { <<"Initial", "Loading">>, <<"Loading", "Rendered">>, <<"Loading", "Error">> }

C9_PageStep == Page' = Page \/ <<Page, Page'>> \in PageSteps

C9_LoadingBeforeFetch == requests # <<>> => Page # "Initial"

C9_LeavesLoadingOnlySettled ==
    Page \in {"Rendered", "Error", "Partial"} =>
        AllSettled \/ \E i \in Files : task[i].st = "rejected"

\* C9: the main region goes Loading -> Rendered or Loading -> Error only;
\* it shows the placeholder before any retrieval is issued; Rendered and
\* Error are final; once every issued retrieval has settled the region
\* leaves Loading; and it leaves Loading only when every retrieval has
\* settled or one has rejected.
C9_PageLifecycle ==
    /\ [][C9_PageStep]_vars
    /\ [](C9_LoadingBeforeFetch /\ C9_LeavesLoadingOnlySettled)
    /\ []((Page = "Loading" /\ AllSettled) => <>(Page \in {"Rendered", "Error"}))

\* Every retrieval settled, one of them with a document, and the page was
\* rendered.
C9_Witness ==
    /\ Page = "Rendered"
    /\ Len(settleOrder) = MaxFiles
    /\ \E i \in Files : Succeeded(i)

(***************************************************************************)
(* Properties of buildCategoryList.                                        *)
(***************************************************************************)
\* a before b in lexicographic order of code units.
LexLess(a, b) ==
    \E k \in 1..(Len(b)) :
        /\ \A j \in 1..(k - 1) : j <= Len(a) /\ a[j] = b[j]
        /\ k - 1 <= Len(a)
        /\ (k > Len(a) \/ CodeUnit(a[k]) < CodeUnit(b[k]))

Dl == listOut[1].children
Term(j) == Dl[2 * j - 1]
Description(j) == Dl[2 * j]
BucketOf(cat) == OwnValue(listIn, cat)
LinksOf(dd) == SelectSeq(dd.children, LAMBDA n : n.tag = "a")
SeparatorsOf(dd) == SelectSeq(dd.children, LAMBDA n : n = Separator)

\* C8: one term/description pair per category, the terms in ascending
\* lexicographic order whatever the insertion order of the keys; each
\* description holds the articles of its category in bucket order, with
\* one separator fewer than articles and none after the last link.
C8_CategoryListSorted ==
    listOut # <<>> =>
        /\ Len(Dl) = 2 * Len(listIn)
        /\ \A j \in 1..Len(listIn) :
              /\ Term(j).tag = "dt" /\ Description(j).tag = "dd"
              /\ HasOwn(listIn, Term(j).text)
              /\ j > 1 => LexLess(Term(j - 1).text, Term(j).text)
              /\ LinksOf(Description(j)) =
                    [q \in 1..Len(BucketOf(Term(j).text)) |->
                        LinkTo(BucketOf(Term(j).text)[q])]
              /\ Len(SeparatorsOf(Description(j))) = Len(BucketOf(Term(j).text)) - 1
              /\ Len(Description(j).children)
                    = 2 * Len(BucketOf(Term(j).text)) - 1
              /\ Description(j).children[Len(Description(j).children)].tag = "a"

\* Three categories inserted in descending order, one with three articles.
C8_Witness ==
    /\ listOut # <<>>
    /\ Len(listIn) = 3
    /\ LexLess(listIn[3][1], listIn[2][1]) /\ LexLess(listIn[2][1], listIn[1][1])
    /\ \E j \in 1..3 : Len(listIn[j][2]) = 3

====
